---------------------------- MODULE Spec2Model ----------------------------
(***************************************************************************)
(* Model of app.py (TalentFit: Enhanced Career Fit Analyzer).               *)
(*                                                                         *)
(* Texts are sequences of one-character strings, so that str.lower(),     *)
(* str.count() (substring based, non-overlapping) and " ".join() are       *)
(* modelled at the level at which Python evaluates them.  Scores are kept  *)
(* in hundredths of a percent (40 is 4000, 100.0 is 10000), because the    *)
(* code rounds every score to two decimals.                                *)
(***************************************************************************)
EXTENDS Integers, Sequences, FiniteSets, TLC

(***************************************************************************)
(* Bounds of the model.                                                    *)
(***************************************************************************)
\* largest number of pages of an uploaded PDF
MaxPages == 2
\* number of categories of a skill definition table
NumSkills == 2

(***************************************************************************)
(* Words the model's texts and keyword lists are made of.                  *)
(***************************************************************************)
sp == <<" ">>
w_risk == <<"r", "i", "s", "k">>
w_Risk == <<"R", "i", "s", "k">>
w_RISK == <<"R", "I", "S", "K">>
w_management == <<"m", "a", "n", "a", "g", "e", "m", "e", "n", "t">>
w_control == <<"c", "o", "n", "t", "r", "o", "l">>
w_FCPA == <<"F", "C", "P", "A">>
w_fcpa == <<"f", "c", "p", "a">>
w_laws == <<"l", "a", "w", "s">>
w_IT == <<"I", "T">>
w_tool == <<"t", "o", "o", "l">>
w_MandA == <<"M", "&", "A">>
w_deal == <<"d", "e", "a", "l">>
w_and == <<"a", "n", "d">>

\* str.lower() on one character (the letters the model's texts use)
LowerChar(c) ==
    CASE c = "A" -> "a" [] c = "C" -> "c" [] c = "F" -> "f" [] c = "I" -> "i"
      [] c = "K" -> "k" [] c = "M" -> "m" [] c = "P" -> "p" [] c = "R" -> "r"
      [] c = "S" -> "s" [] c = "T" -> "t" [] OTHER -> c

\* str.lower() (the concatenation makes TLC build the sequence once)
lower(s) == [i \in 1..Len(s) |-> LowerChar(s[i])] \o <<>>

\* does sub occur in s at position i
MatchAt(s, sub, i) ==
    /\ i + Len(sub) - 1 <= Len(s)
    /\ \A k \in 1..Len(sub) : s[i + k - 1] = sub[k]

\* the first position from i on at which sub occurs in s, 0 when none
NextMatch(s, sub, i) ==
    LET at == {j \in i..(Len(s) - Len(sub) + 1) : MatchAt(s, sub, j)}
    IN  IF at = {} THEN 0 ELSE CHOOSE j \in at : \A k \in at : j <= k

RECURSIVE CountFrom(_, _, _)
\* the occurrences of sub in s from position i on, each counted from the
\* end of the one before
CountFrom(s, sub, i) ==
    LET j == NextMatch(s, sub, i)
    IN  IF j = 0 THEN 0 ELSE 1 + CountFrom(s, sub, j + Len(sub))

\* str.count(sub): the number of non-overlapping occurrences, scanning from
\* the left; the empty string occurs len(s) + 1 times
count(s, sub) == IF sub = <<>> THEN Len(s) + 1 ELSE CountFrom(s, sub, 1)

\* [x] * n
Repeat(x, n) == [i \in 1..n |-> x]

RECURSIVE join(_)
\* " ".join(parts), the list split in two halves
join(parts) ==
    IF parts = <<>> THEN <<>>
    ELSE IF Len(parts) = 1 THEN parts[1]
    ELSE LET h == Len(parts) \div 2
         IN  join(SubSeq(parts, 1, h)) \o sp \o join(SubSeq(parts, h + 1, Len(parts)))

Min(a, b) == IF a <= b THEN a ELSE b
Max(a, b) == IF a >= b THEN a ELSE b


(***************************************************************************)
(* read_pdf.  An uploaded file is what PyPDF2 makes of it: PdfReader(file) *)
(* either raises or yields pages, and page.extract_text() either raises,   *)
(* returns nothing (None or "", an image-only page) or returns a text.     *)
(***************************************************************************)
NoText == [kind |-> "none", text |-> <<>>]
PageRaises == [kind |-> "raise", text |-> <<>>]
PageText(t) == [kind |-> "text", text |-> t]

\* the page texts of the model
PageTexts ==
    { w_Risk \o sp \o w_risk \o sp \o w_RISK \o sp \o w_management,
      w_FCPA \o sp \o w_laws \o sp \o w_fcpa \o sp \o w_FCPA,
      w_IT \o sp \o w_tool \o sp \o w_tool \o sp \o w_MandA \o sp \o w_deal,
      sp }

PageOutcomes == {NoText, PageRaises} \cup {PageText(t) : t \in PageTexts}

RECURSIVE SeqsUpTo(_, _)
\* the sequences over S of length at most n
SeqsUpTo(S, n) ==
    IF n = 0 THEN {<<>>}
    ELSE LET shorter == SeqsUpTo(S, n - 1)
         IN  shorter \cup {Append(q, x) : q \in {r \in shorter : Len(r) = n - 1}, x \in S}

\* the files a user may upload
Files ==
    {[reader_raises |-> TRUE, pages |-> <<>>]}
      \cup {[reader_raises |-> FALSE, pages |-> ps] : ps \in SeqsUpTo(PageOutcomes, MaxPages)}

RECURSIVE read_pages(_, _)
\* the loop of read_pdf over reader.pages, from the text read so far
read_pages(pages, text) ==
    IF pages = <<>> THEN [raised |-> FALSE, text |-> text]
    ELSE LET page == Head(pages)
         IN  IF page.kind = "raise" THEN [raised |-> TRUE, text |-> <<>>]
             ELSE IF page.kind = "text" /\ page.text # <<>>
                  THEN read_pages(Tail(pages), text \o page.text \o sp)
             ELSE read_pages(Tail(pages), text)

\* read_pdf(file): the text, or the exception that leaves it (no try/except)
read_pdf(file) ==
    IF file.reader_raises THEN [raised |-> TRUE, text |-> <<>>]
    ELSE read_pages(file.pages, <<>>)

(***************************************************************************)
(* job_desc and skills_enhanced.  Both are literals of the script; the     *)
(* model draws them from small sets so that the scorer is exercised on     *)
(* more than one job text and more than one definition table.              *)
(***************************************************************************)
JobTexts ==
    { w_risk \o sp \o w_management \o sp \o w_and \o sp \o w_IT \o sp
        \o w_Risk \o sp \o w_risk \o sp \o w_risk \o sp \o w_risk \o sp \o w_RISK,
      w_FCPA \o sp \o w_laws \o sp \o w_tool \o sp \o w_MandA \o sp \o w_deal
        \o sp \o w_control }

SkillPool ==
    << [name |-> "Compliance & Risk Management",
        phrases |-> <<w_risk \o sp \o w_management>>,
        primary |-> <<w_risk>>,
        secondary |-> <<w_control>>,
        threshold |-> 75],
       [name |-> "M&A & Due Diligence",
        phrases |-> <<w_MandA>>,
        primary |-> <<w_deal>>,
        secondary |-> <<w_deal>>,
        threshold |-> 60],
       [name |-> "Regulatory Knowledge",
        phrases |-> <<w_FCPA>>,
        primary |-> <<w_FCPA>>,
        secondary |-> <<w_risk, w_laws>>,
        threshold |-> 75],
       [name |-> "Digitalization",
        phrases |-> <<>>,
        primary |-> <<w_IT>>,
        secondary |-> <<w_tool>>,
        threshold |-> 65],
       \* a definition with no keyword at all
       [name |-> "Training",
        phrases |-> <<>>,
        primary |-> <<>>,
        secondary |-> <<>>,
        threshold |-> 65] >>

\* the definition tables: NumSkills categories that follow each other in
\* SkillPool (cyclically), in its order or in the reverse order; the names
\* of a table are distinct (the keys of a dict)
SkillTables ==
    LET n == Len(SkillPool)
        Window(k) == [i \in 1..NumSkills |-> SkillPool[((k + i - 2) % n) + 1]]
        Reverse(t) == [i \in 1..NumSkills |-> t[NumSkills + 1 - i]]
    IN  {Window(k) : k \in 1..n} \cup {Reverse(Window(k)) : k \in 1..n}

\* a definition with no non-empty keyword group
Malformed(skill_config) ==
    /\ skill_config.phrases = <<>>
    /\ skill_config.primary = <<>>
    /\ skill_config.secondary = <<>>

(***************************************************************************)
(* calculate_enhanced_score: the signal strings.                           *)
(***************************************************************************)
\* primary_reps without its cap
primary_reps_uncapped(n) == n * 2

\* repetitions of a phrase that occurs n times: min(n * 3, 15)
phrase_reps(n) == Min(n * 3, 15)
\* repetitions of a primary keyword that occurs n times: min(n * 2, 10)
primary_reps(n) == Min(n * 2, 10)
\* repetitions of a secondary keyword that occurs n times: min(n, 5)
secondary_reps(n) == Min(n, 5)

RECURSIVE phrase_parts(_, _)
phrase_parts(text_lower, kws) ==
    IF kws = <<>> THEN <<>>
    ELSE Repeat(Head(kws), phrase_reps(count(text_lower, lower(Head(kws)))))
           \o phrase_parts(text_lower, Tail(kws))

RECURSIVE primary_parts(_, _)
primary_parts(text_lower, kws) ==
    IF kws = <<>> THEN <<>>
    ELSE Repeat(Head(kws), primary_reps(count(text_lower, lower(Head(kws)))))
           \o primary_parts(text_lower, Tail(kws))

RECURSIVE secondary_parts(_, _)
secondary_parts(text_lower, kws) ==
    IF kws = <<>> THEN <<>>
    ELSE Repeat(Head(kws), secondary_reps(count(text_lower, lower(Head(kws)))))
           \o secondary_parts(text_lower, Tail(kws))

\* cv_parts (or jd_parts) after the three loops
signal_parts(text, skill_config) ==
    LET text_lower == lower(text)
    IN  phrase_parts(text_lower, skill_config.phrases)
          \o primary_parts(text_lower, skill_config.primary)
          \o secondary_parts(text_lower, skill_config.secondary)

(***************************************************************************)
(* TfidfVectorizer(stop_words="english", ngram_range=(1, 2)), with the     *)
(* defaults lowercase=True, token_pattern=r"(?u)\b\w\w+\b", use_idf=True,  *)
(* smooth_idf=True, norm="l2".                                             *)
(***************************************************************************)
\* \w, on lower-cased text
WordChars ==
    {"a", "b", "c", "d", "e", "f", "g", "h", "i", "j", "k", "l", "m", "n", "o",
     "p", "q", "r", "s", "t", "u", "v", "w", "x", "y", "z", "_",
     "0", "1", "2", "3", "4", "5", "6", "7", "8", "9"}

\* the words of sklearn's English stop list that the model's texts contain
StopWords == {<<"i", "t">>, w_and}

\* the first position from i on that holds a word character (want) or
\* none (~want); Len(s) + 1 when there is no such position
Scan(s, i, want) ==
    CHOOSE j \in i..(Len(s) + 1) :
        /\ j = Len(s) + 1 \/ (s[j] \in WordChars) = want
        /\ \A k \in i..(j - 1) : (s[k] \in WordChars) # want

RECURSIVE TokensFrom(_, _)
\* the tokens of s from position i on: its maximal runs of word characters,
\* in order; a run of one character is no token (\w\w+)
TokensFrom(s, i) ==
    LET from == Scan(s, i, TRUE)
        to == Scan(s, from, FALSE)
    IN  IF from > Len(s) THEN <<>>
        ELSE (IF to - from >= 2 THEN <<SubSeq(s, from, to - 1)>> ELSE <<>>)
               \o TokensFrom(s, to)

tokenize(s) == TokensFrom(s, 1)

NotStopWord(tok) == tok \notin StopWords

\* the analyzer: lower-case, tokenize, drop stop words, then the unigrams
\* followed by the bigrams of what is left
analyze(doc) ==
    LET toks == SelectSeq(tokenize(lower(doc)), NotStopWord)
    IN  [i \in 1..Len(toks) |-> <<toks[i]>>]
          \o [i \in 1..(Len(toks) - 1) |-> <<toks[i], toks[i + 1]>>]

\* the raw term count of term t in the analyzed document
tf(terms, t) == Cardinality({i \in 1..Len(terms) : terms[i] = t})

TermSet(terms) == {terms[i] : i \in 1..Len(terms)}

RECURSIVE SumOver(_, _, _)
\* the sum of f[t] * g[t] over the terms t of T
SumOver(T, f, g) ==
    IF T = {} THEN 0
    ELSE LET t == CHOOSE x \in T : TRUE
         IN  f[t] * g[t] + SumOver(T \ {t}, f, g)

(***************************************************************************)
(* Arithmetic on naturals wider than TLC's integers: a number is the       *)
(* sequence of its digits in base BigBase, least significant first.        *)
(***************************************************************************)
BigBase == 10000

RECURSIVE BigOfInt(_)
BigOfInt(n) == IF n < BigBase THEN <<n>> ELSE <<n % BigBase>> \o BigOfInt(n \div BigBase)

RECURSIVE BigCarry(_, _)
BigCarry(ds, c) ==
    IF ds = <<>> THEN (IF c = 0 THEN <<>> ELSE BigOfInt(c))
    ELSE LET v == Head(ds) + c
         IN  <<v % BigBase>> \o BigCarry(Tail(ds), v \div BigBase)

BigDigit(a, i) == IF i <= Len(a) THEN a[i] ELSE 0

BigAdd(a, b) == BigCarry([i \in 1..Max(Len(a), Len(b)) |-> BigDigit(a, i) + BigDigit(b, i)], 0)

BigScale(a, d) == BigCarry([i \in 1..Len(a) |-> a[i] * d], 0)

RECURSIVE BigMul(_, _)
BigMul(a, b) ==
    IF a = <<>> THEN <<>>
    ELSE BigAdd(BigScale(b, Head(a)), <<0>> \o BigMul(Tail(a), b))

RECURSIVE BigTrim(_)
\* without its leading zero digits
BigTrim(a) ==
    IF a # <<>> /\ a[Len(a)] = 0 THEN BigTrim(SubSeq(a, 1, Len(a) - 1)) ELSE a

RECURSIVE BigLeqFrom(_, _, _)
BigLeqFrom(a, b, i) ==
    IF i = 0 THEN TRUE
    ELSE IF a[i] # b[i] THEN a[i] < b[i]
    ELSE BigLeqFrom(a, b, i - 1)

\* a <= b
BigLeq(a, b) ==
    LET x == BigTrim(a)
        y == BigTrim(b)
    IN  IF Len(x) # Len(y) THEN Len(x) < Len(y) ELSE BigLeqFrom(x, y, Len(x))

(***************************************************************************)
(* cosine_similarity of the two tf-idf rows, times 100, rounded to two     *)
(* decimals.  With two documents idf is ln(3/(1+df)) + 1: 1 for a term of  *)
(* both documents and 1 + ln 1.5 for a term of one; its square is kept as  *)
(* the fraction IdfSqNum / IdfSqDen.  The quotient is computed exactly and *)
(* rounded to the nearest hundredth (a tie, which needs a rational cosine  *)
(* of the form (2k + 1) / 20000, goes up).                                 *)
(***************************************************************************)
IdfSqNum == 19753
IdfSqDen == 10000

RECURSIVE RoundSearch(_, _, _, _)
\* the largest h in lo..hi with (2h - 1)^2 * Q <= P4, where lo satisfies it
RoundSearch(lo, hi, Q, P4) ==
    IF lo = hi THEN lo
    ELSE LET mid == (lo + hi + 1) \div 2
         IN  IF BigLeq(BigMul(BigOfInt((2 * mid - 1) * (2 * mid - 1)), Q), P4)
             THEN RoundSearch(mid, hi, Q, P4)
             ELSE RoundSearch(lo, mid - 1, Q, P4)

\* cosine without the l2 normalisation of the rows
cosine_hundredths_unnormalised(dot, A, B) == 10000 * dot

\* round(10000 * dot / sqrt((A / IdfSqDen) * (B / IdfSqDen))): the cosine of
\* two rows with inner product dot and squared norms A / IdfSqDen and
\* B / IdfSqDen, in hundredths of a percent
cosine_hundredths(dot, A, B) ==
    IF dot = 0 \/ A = 0 \/ B = 0 THEN 0
    ELSE LET Q == BigMul(BigOfInt(A), BigOfInt(B))
             \* 4 * 10^8 * dot^2 * IdfSqDen^2
             P4 == <<0, 0, 0, 0>> \o BigScale(BigMul(BigOfInt(dot), BigOfInt(dot)), 4)
         IN  IF BigLeq(Q, P4) THEN RoundSearch(1, 20000, Q, P4) ELSE 0

\* lines 153-156: the score of two signal strings, or the ValueError that
\* fit_transform raises on an empty vocabulary
tfidf_score(cv_part, jd_part) ==
    LET a == analyze(cv_part)
        b == analyze(jd_part)
        both == TermSet(a) \cap TermSet(b)
        tfa == [t \in TermSet(a) |-> tf(a, t)]
        tfb == [t \in TermSet(b) |-> tf(b, t)]
        dot == SumOver(both, tfa, tfb)
        A == IdfSqDen * SumOver(both, tfa, tfa) + IdfSqNum * SumOver(TermSet(a) \ both, tfa, tfa)
        B == IdfSqDen * SumOver(both, tfb, tfb) + IdfSqNum * SumOver(TermSet(b) \ both, tfb, tfb)
    IN  IF TermSet(a) \cup TermSet(b) = {} THEN [raised |-> TRUE, score |-> 0]
        ELSE [raised |-> FALSE, score |-> cosine_hundredths(dot, A, B)]

\* line 149 with "and" for "or"
no_signal_both(cv_part, jd_part) == cv_part = <<>> /\ jd_part = <<>>

\* line 149: the early return
no_signal(cv_part, jd_part) == cv_part = <<>> \/ jd_part = <<>>

\* calculate_enhanced_score(cv_text, jd_text, skill_config), with what the
\* call did: its two lists of parts and whether it reached the vectorizer
calculate_enhanced_score(cv_text, jd_text, skill_config) ==
    LET cv_parts == signal_parts(cv_text, skill_config)
        jd_parts == signal_parts(jd_text, skill_config)
        cv_part == join(cv_parts)
        jd_part == join(jd_parts)
        r == tfidf_score(cv_part, jd_part)
    IN  [cv_parts |-> cv_parts,
         jd_parts |-> jd_parts,
         vectorized |-> ~no_signal(cv_part, jd_part),
         score |-> IF no_signal(cv_part, jd_part) THEN 4000
                   ELSE IF r.raised THEN 4000
                   ELSE r.score]

(***************************************************************************)
(* analyze_gaps                                                            *)
(***************************************************************************)
\* line 192 with <= for <
is_underused_incl(n) == n <= 3

\* line 192: elif count < 3
is_underused(n) == n < 3

RECURSIVE check_phrases(_, _, _)
\* the loop over the phrases (lines 179-184), from the analysis so far
check_phrases(cv_lower, kws, analysis) ==
    IF kws = <<>> THEN analysis
    ELSE LET phrase == Head(kws)
             n == count(cv_lower, lower(phrase))
         IN  check_phrases(cv_lower, Tail(kws),
                 IF n = 0
                 THEN [analysis EXCEPT !.missing_phrases = Append(@, phrase)]
                 ELSE [analysis EXCEPT !.present_phrases = Append(@, <<phrase, n>>)])

RECURSIVE check_keywords(_, _, _)
\* the loop over all_keywords (lines 188-195), from the analysis so far
check_keywords(cv_lower, kws, analysis) ==
    IF kws = <<>> THEN analysis
    ELSE LET kw == Head(kws)
             n == count(cv_lower, lower(kw))
         IN  check_keywords(cv_lower, Tail(kws),
                 IF n = 0
                 THEN [analysis EXCEPT !.missing_keywords = Append(@, kw)]
                 ELSE IF is_underused(n)
                 THEN [analysis EXCEPT !.underused_keywords = Append(@, <<kw, n>>)]
                 ELSE [analysis EXCEPT !.good_keywords = Append(@, <<kw, n>>)])

\* analyze_gaps(cv_text, skill_config)
analyze_gaps(cv_text, skill_config) ==
    LET cv_lower == lower(cv_text)
        analysis == [missing_phrases |-> <<>>, present_phrases |-> <<>>,
                     missing_keywords |-> <<>>, underused_keywords |-> <<>>,
                     good_keywords |-> <<>>]
        all_keywords == skill_config.primary \o skill_config.secondary
    IN  check_keywords(cv_lower, all_keywords,
            check_phrases(cv_lower, skill_config.phrases, analysis))

(***************************************************************************)
(* The data frame and what is derived from it                              *)
(***************************************************************************)
RECURSIVE column_sum(_)
\* df["Match %"].sum(), in hundredths
column_sum(rows) == IF rows = <<>> THEN 0 ELSE Head(rows).Match + column_sum(Tail(rows))

\* the values round(total / n) may take: the nearest integer, and on a tie,
\* which the float arithmetic of mean() and round() decides, either neighbour
round_quotient(total, n) ==
    {q \in {total \div n, total \div n + 1} : 2 * q * n - 2 * total \in (-n)..n}

RECURSIVE column_sum_mentioned(_)
\* the sum that leaves out the rows at the default score
column_sum_mentioned(rows) ==
    IF rows = <<>> THEN 0
    ELSE (IF Head(rows).Match = 4000 THEN 0 ELSE Head(rows).Match)
           + column_sum_mentioned(Tail(rows))

\* the overall score over the mentioned rows only
overall_scores_mentioned(rows) == round_quotient(column_sum_mentioned(rows), Len(rows))

\* line 224: round(df["Match %"].mean(), 2), in hundredths
overall_scores(rows) == round_quotient(column_sum(rows), Len(rows))

\* a global threshold in place of the row's own
is_strong_global(row) == row.Match >= 7000

\* lines 231, 244, 262: Match % >= Threshold
is_strong(row) == row.Match >= row.Threshold * 100

\* line 273: Match % < Threshold
needs_work(row) == row.Match < row.Threshold * 100

(***************************************************************************)
(* The script.  Streamlit runs it from the top on every upload; pc is the  *)
(* place the run has reached.                                              *)
(***************************************************************************)
VARIABLES
    pc,              \* "idle", "read_pdf", "score", "exception", "display", "done"
    skills_enhanced, \* the definition table (lines 66-109)
    job_desc,        \* the job text (lines 26-60)
    cv_file,         \* <<>> or <<the uploaded file>>
    cv_text,
    results,         \* the rows [Skill, Match, Threshold]
    gap_analyses,    \* per row, the result of analyze_gaps
    calls,           \* per row, what calculate_enhanced_score did
    df,
    overall_score,
    strong_count,
    colours,         \* the chart's colour of each row
    strengths_df,
    improvement_df,
    csv

vars == <<pc, skills_enhanced, job_desc, cv_file, cv_text, results, gap_analyses,
          calls, df, overall_score, strong_count, colours, strengths_df,
          improvement_df, csv>>

\* what a run starts from
Fresh ==
    /\ cv_text = <<>>
    /\ results = <<>>
    /\ gap_analyses = <<>>
    /\ calls = <<>>
    /\ df = <<>>
    /\ overall_score = 0
    /\ strong_count = 0
    /\ colours = <<>>
    /\ strengths_df = <<>>
    /\ improvement_df = <<>>
    /\ csv = <<>>

Init ==
    /\ pc = "idle"
    /\ skills_enhanced \in SkillTables
    /\ job_desc \in JobTexts
    /\ cv_file = <<>>
    /\ Fresh

\* line 208: the user uploads a file and the script runs into "if cv_file:"
Upload ==
    /\ pc = "idle"
    /\ \E file \in Files : cv_file' = <<file>>
    /\ pc' = "read_pdf"
    /\ UNCHANGED <<skills_enhanced, job_desc, cv_text, results, gap_analyses, calls, df,
                   overall_score, strong_count, colours, strengths_df, improvement_df, csv>>

\* line 212: cv_text = read_pdf(cv_file); an exception of the parser is
\* caught by nothing and ends the run
ReadPdf ==
    /\ pc = "read_pdf"
    /\ LET r == read_pdf(cv_file[1])
       IN  IF r.raised
           THEN pc' = "exception" /\ UNCHANGED cv_text
           ELSE pc' = "score" /\ cv_text' = r.text
    /\ UNCHANGED <<skills_enhanced, job_desc, cv_file, results, gap_analyses, calls, df,
                   overall_score, strong_count, colours, strengths_df, improvement_df, csv>>

\* lines 218-221: one turn of the loop over skills_enhanced.items()
ScoreSkill ==
    /\ pc = "score"
    /\ Len(results) < Len(skills_enhanced)
    /\ LET config == skills_enhanced[Len(results) + 1]
           call == calculate_enhanced_score(cv_text, job_desc, config)
       IN  /\ results' = Append(results, [Skill |-> config.name, Match |-> call.score,
                                          Threshold |-> config.threshold])
           /\ gap_analyses' = Append(gap_analyses, analyze_gaps(cv_text, config))
           /\ calls' = Append(calls, [cv_parts |-> call.cv_parts, jd_parts |-> call.jd_parts,
                                      vectorized |-> call.vectorized])
    /\ UNCHANGED <<pc, skills_enhanced, job_desc, cv_file, cv_text, df, overall_score,
                   strong_count, colours, strengths_df, improvement_df, csv>>

\* lines 223-235: the frame, in the order of results, and the metrics
BuildFrame ==
    /\ pc = "score"
    /\ Len(results) = Len(skills_enhanced)
    /\ df' = results
    /\ overall_score' \in overall_scores(results)
    /\ strong_count' = Len(SelectSeq(results, is_strong))
    /\ pc' = "display"
    /\ UNCHANGED <<skills_enhanced, job_desc, cv_file, cv_text, results, gap_analyses,
                   calls, colours, strengths_df, improvement_df, csv>>

\* lines 238-347: the chart, the two lists and the CSV export
Display ==
    /\ pc = "display"
    /\ colours' = [i \in 1..Len(df) |-> IF is_strong(df[i]) THEN "Strong" ELSE "Needs Work"]
    /\ strengths_df' = SelectSeq(df, is_strong)
    /\ improvement_df' = SelectSeq(df, needs_work)
    /\ csv' = df
    /\ pc' = "done"
    /\ UNCHANGED <<skills_enhanced, job_desc, cv_file, cv_text, results, gap_analyses,
                   calls, df, overall_score, strong_count>>

\* the user removes the file, or the page is loaded again: nothing of the
\* run is kept
Rerun ==
    /\ pc \in {"done", "exception"}
    /\ pc' = "idle"
    /\ cv_file' = <<>>
    /\ cv_text' = <<>>
    /\ results' = <<>>
    /\ gap_analyses' = <<>>
    /\ calls' = <<>>
    /\ df' = <<>>
    /\ overall_score' = 0
    /\ strong_count' = 0
    /\ colours' = <<>>
    /\ strengths_df' = <<>>
    /\ improvement_df' = <<>>
    /\ csv' = <<>>
    /\ UNCHANGED <<skills_enhanced, job_desc>>

Next == Upload \/ ReadPdf \/ ScoreSkill \/ BuildFrame \/ Display \/ Rerun

Spec == Init /\ [][Next]_vars

(***************************************************************************)
(* Notions the properties are stated in                                    *)
(***************************************************************************)
\* empty, or nothing but spaces
Blank(text) == \A i \in 1..Len(text) : text[i] = " "

\* PdfReader(file) or some page.extract_text() raises
ParserFails(file) ==
    file.reader_raises \/ \E i \in 1..Len(file.pages) : file.pages[i].kind = "raise"

\* the keyword entries of a definition, each with the weight of its tier
Entries(skill_config) ==
    [i \in 1..Len(skill_config.phrases) |-> <<skill_config.phrases[i], 3>>]
      \o [i \in 1..Len(skill_config.primary) |-> <<skill_config.primary[i], 2>>]
      \o [i \in 1..Len(skill_config.secondary) |-> <<skill_config.secondary[i], 1>>]

\* the number of case-insensitive occurrences of kw in text
Occurrences(text, kw) == count(lower(text), lower(kw))

\* text holds no phrase and no keyword of the definition
ZeroSignal(text, skill_config) ==
    \A i \in 1..Len(Entries(skill_config)) :
        Occurrences(text, Entries(skill_config)[i][1]) = 0

Framed == pc \in {"display", "done"}

RECURSIVE SumMatch(_, _)
\* the sum of the scores of the first n rows
SumMatch(rows, n) ==
    IF n = 0 THEN 0 ELSE rows[n].Match + SumMatch(rows, n - 1)

RECURSIVE SumMentioned(_, _)
\* the same sum with 0 for every category the resume does not mention
SumMentioned(rows, n) ==
    IF n = 0 THEN 0
    ELSE (IF ZeroSignal(cv_text, skills_enhanced[n]) THEN 0 ELSE rows[n].Match)
           + SumMentioned(rows, n - 1)

\* q is total / n rounded to the nearest integer
IsRounded(q, total, n) == 2 * q * n - 2 * total \in (-n)..n

(***************************************************************************)
(* C1.  Whenever the extracted text is empty or blank, the run halts       *)
(* before scoring: no category row is produced and no table, overall       *)
(* score or CSV is presented.  The script has no such check.               *)
(***************************************************************************)
C1_BlankTextHaltsBeforeScoring ==
    (pc \in {"score", "display", "done"} /\ Blank(cv_text))
        => (results = <<>> /\ ~Framed /\ csv = <<>>)

(***************************************************************************)
(* C2.  read_pdf lets no failure escape: a run never ends in the parser's  *)
(* exception, and a file on which the parser raises is read as the empty   *)
(* text.  read_pdf has no try/except.                                      *)
(***************************************************************************)
C2_ReadPdfNeverRaises ==
    pc \notin {"idle", "read_pdf"}
        => (pc # "exception" /\ (ParserFails(cv_file[1]) => cv_text = <<>>))

(***************************************************************************)
(* C3, as claimed.  The overall score is the weighted mean of the scores   *)
(* (the script gives every category the same weight), a category with no   *)
(* keyword in the resume contributing 0 to the numerator and its weight to *)
(* the denominator.                                                        *)
(***************************************************************************)
C3_OverallCountsUnmentionedAsZero ==
    Framed => IsRounded(overall_score, SumMentioned(df, Len(df)), Len(df))

(***************************************************************************)
(* C3, amended.  The overall score is the mean of all the categories'      *)
(* scores, every category with the same weight, rounded to two decimals;   *)
(* a category with no keyword in the resume contributes its default score  *)
(* 40 to the numerator.                                                    *)
(***************************************************************************)
C3_OverallIsMeanOfScores ==
    Framed => IsRounded(overall_score, SumMatch(df, Len(df)), Len(df))

\* a frame with a category the resume does not mention and one it does
C3_Witness ==
    /\ Framed
    /\ \E i, j \in 1..Len(df) :
          /\ ZeroSignal(cv_text, skills_enhanced[i]) /\ df[i].Match = 4000
          /\ ~ZeroSignal(cv_text, skills_enhanced[j]) /\ df[j].Match \notin {0, 4000}

(***************************************************************************)
(* C4.  If the resume holds no phrase and no keyword of a category,        *)
(* calculate_enhanced_score returns the default 40 without reaching the    *)
(* vectorizer, and it does so for every category of the run.               *)
(***************************************************************************)
C4_ZeroSignalReturnsDefault ==
    \A i \in 1..Len(results) :
        ZeroSignal(cv_text, skills_enhanced[i])
            => (results[i].Match = 4000 /\ ~calls[i].vectorized)

\* two categories the resume does not mention, one of them with keywords
\* in the job text
C4_Witness ==
    \E i, j \in 1..Len(results) :
        /\ i # j
        /\ ZeroSignal(cv_text, skills_enhanced[i])
        /\ ZeroSignal(cv_text, skills_enhanced[j])
        /\ calls[i].jd_parts # <<>>

(***************************************************************************)
(* C5.  Every score calculate_enhanced_score returns lies in [0, 100].     *)
(***************************************************************************)
C5_ScoreInRange ==
    \A i \in 1..Len(results) : results[i].Match \in 0..10000

\* a score the vectorizer produced, strictly between the ends, and one at
\* the upper end
C5_Witness ==
    \E i, j \in 1..Len(results) :
        /\ calls[i].vectorized /\ results[i].Match \in 1..9999
        /\ calls[j].vectorized /\ results[j].Match = 10000

(***************************************************************************)
(* C6.  Once the lists are shown, every category is in exactly one of the  *)
(* strengths list (score >= its own threshold) and the improvement list    *)
(* (score < its own threshold), the chart colours it accordingly, and the  *)
(* 'Strong Matches' count is the size of the strengths list.               *)
(***************************************************************************)
InFrame(row, frame) == \E k \in 1..Len(frame) : frame[k] = row

C6_ThresholdPartition ==
    pc = "done" =>
        /\ \A i \in 1..Len(df) :
              LET strong == df[i].Match >= df[i].Threshold * 100
              IN  /\ InFrame(df[i], strengths_df) <=> strong
                  /\ InFrame(df[i], improvement_df) <=> ~strong
                  /\ (colours[i] = "Strong") <=> strong
        /\ Len(strengths_df) + Len(improvement_df) = Len(df)
        /\ \A k \in 1..Len(strengths_df) : InFrame(strengths_df[k], df)
        /\ \A k \in 1..Len(improvement_df) : InFrame(improvement_df[k], df)
        /\ strong_count = Len(strengths_df)

\* both lists are non-empty, and a category is strong by its own threshold
\* with a score another category's threshold would reject
C6_Witness ==
    /\ pc = "done"
    /\ improvement_df # <<>>
    /\ \E k \in 1..Len(strengths_df), i \in 1..Len(df) :
          strengths_df[k].Match < df[i].Threshold * 100

(***************************************************************************)
(* C7.  The rows of the result table, and of the CSV made of it, are       *)
(* sorted by descending score.  The script keeps the order of the          *)
(* definition table and never sorts.                                       *)
(***************************************************************************)
C7_RowsSortedByScore ==
    /\ Framed => \A i \in 1..(Len(df) - 1) : df[i].Match >= df[i + 1].Match
    /\ \A i \in 1..(Len(csv) - 1) : csv[i].Match >= csv[i + 1].Match

(***************************************************************************)
(* C8.  A definition whose keyword lists are all empty is rejected when    *)
(* the definitions are loaded: no run produces a score row for it.  The    *)
(* script does not validate skills_enhanced.                               *)
(***************************************************************************)
C8_NoRowForMalformedDefinition ==
    \A i \in 1..Len(results) : ~Malformed(skills_enhanced[i])

(***************************************************************************)
(* C9.  On each side, every keyword entry is repeated in the list of parts *)
(* exactly min(count * w, 5 * w) times, count being its occurrences in     *)
(* that side's text and w the weight of its tier (3, 2, 1), the entries in *)
(* the order phrases, primary, secondary.                                  *)
(***************************************************************************)
RECURSIVE ExpectedParts(_, _)
\* for lower-cased text, the copies of each entry, in the order of entries
ExpectedParts(text_lower, entries) ==
    IF entries = <<>> THEN <<>>
    ELSE LET kw == Head(entries)[1]
             w == Head(entries)[2]
             n == count(text_lower, lower(kw))
         IN  Repeat(kw, IF n * w <= 5 * w THEN n * w ELSE 5 * w)
               \o ExpectedParts(text_lower, Tail(entries))

C9_RepetitionsPerEntry ==
    \A i \in 1..Len(calls) :
        /\ calls[i].cv_parts = ExpectedParts(lower(cv_text), Entries(skills_enhanced[i]))
        /\ calls[i].jd_parts = ExpectedParts(lower(job_desc), Entries(skills_enhanced[i]))

\* a call in which the cap of a primary keyword binds in the resume and in
\* the job text, and one with an entry below its cap and an entry absent
C9_Witness ==
    /\ \E i \in 1..Len(calls) :
          \E k \in 1..Len(skills_enhanced[i].primary) :
              /\ Occurrences(cv_text, skills_enhanced[i].primary[k]) > 5
              /\ Occurrences(job_desc, skills_enhanced[i].primary[k]) > 5
    /\ \E i \in 1..Len(calls) :
          \E k, m \in 1..Len(Entries(skills_enhanced[i])) :
              /\ Occurrences(cv_text, Entries(skills_enhanced[i])[k][1]) \in 1..4
              /\ Occurrences(cv_text, Entries(skills_enhanced[i])[m][1]) = 0

(***************************************************************************)
(* C10.  analyze_gaps puts every phrase in exactly one of missing_phrases  *)
(* (count 0) and present_phrases (count >= 1), and every entry of primary  *)
(* + secondary in exactly one of missing_keywords (count 0),               *)
(* underused_keywords (count 1 or 2) and good_keywords (count >= 3), with  *)
(* its count, in the order of the definition, once per listing.            *)
(***************************************************************************)
\* the class of a keyword, and of a phrase, that occurs n times
KeywordClass(n) ==
    CASE n = 0 -> "missing" [] n \in {1, 2} -> "underused" [] OTHER -> "good"
PhraseClass(n) == IF n = 0 THEN "missing" ELSE "present"

\* the occurrences in text of each entry of kws
CountsOf(text, kws) ==
    LET text_lower == lower(text)
    IN  [k \in 1..Len(kws) |-> count(text_lower, lower(kws[k]))] \o <<>>

RECURSIVE EntriesOfClass(_, _, _, _, _)
\* the entries of kws from the k-th on whose class (a phrase's when
\* asPhrase, else a keyword's) is the given one, in order, as <<entry, count>>
EntriesOfClass(kws, counts, k, class, asPhrase) ==
    IF k > Len(kws) THEN <<>>
    ELSE LET c == IF asPhrase THEN PhraseClass(counts[k]) ELSE KeywordClass(counts[k])
         IN  (IF c = class THEN <<<<kws[k], counts[k]>>>> ELSE <<>>)
               \o EntriesOfClass(kws, counts, k + 1, class, asPhrase)

Firsts(pairs) == [k \in 1..Len(pairs) |-> pairs[k][1]]

C10_GapClassification ==
    \A i \in 1..Len(gap_analyses) :
        LET g == gap_analyses[i]
            phrases == skills_enhanced[i].phrases
            kws == skills_enhanced[i].primary \o skills_enhanced[i].secondary
            pn == CountsOf(cv_text, phrases)
            kn == CountsOf(cv_text, kws)
        IN  /\ g.missing_phrases = Firsts(EntriesOfClass(phrases, pn, 1, "missing", TRUE))
            /\ g.present_phrases = EntriesOfClass(phrases, pn, 1, "present", TRUE)
            /\ g.missing_keywords = Firsts(EntriesOfClass(kws, kn, 1, "missing", FALSE))
            /\ g.underused_keywords = EntriesOfClass(kws, kn, 1, "underused", FALSE)
            /\ g.good_keywords = EntriesOfClass(kws, kn, 1, "good", FALSE)
            /\ Len(g.missing_phrases) + Len(g.present_phrases) = Len(phrases)
            /\ Len(g.missing_keywords) + Len(g.underused_keywords)
                   + Len(g.good_keywords) = Len(kws)

\* every class is met, a keyword occurs exactly 3 times, and a keyword
\* listed in both tiers is classified twice
C10_Witness ==
    /\ \E i \in 1..Len(gap_analyses) :
          /\ gap_analyses[i].good_keywords # <<>>
          /\ gap_analyses[i].underused_keywords # <<>>
          /\ gap_analyses[i].present_phrases # <<>>
          /\ \E k \in 1..Len(gap_analyses[i].good_keywords) :
                gap_analyses[i].good_keywords[k][2] = 3
    /\ \E i \in 1..Len(gap_analyses) :
          /\ gap_analyses[i].missing_phrases # <<>>
          /\ gap_analyses[i].missing_keywords # <<>>
    /\ \E i \in 1..Len(gap_analyses) :
          /\ Len(gap_analyses[i].missing_keywords) = 2
          /\ gap_analyses[i].missing_keywords[1] = gap_analyses[i].missing_keywords[2]

=============================================================================
